---- MODULE Spec2Model ----
(***************************************************************************)
(* Model of Forexbotly: the backtest replay (backtester.py), the market    *)
(* stage classifier and the strategy dispatcher (app.py).                  *)
(*                                                                         *)
(* Numbers are exact rationals <<num, den>> (den > 0, lowest terms);       *)
(* Python's None and pandas' NaN are the pair <<0, 0>>.                    *)
(***************************************************************************)
EXTENDS Integers, Sequences, FiniteSets, TLC

\* ------------------------------------------------------------------ bounds
MaxBars == 2
MaxRuns == 2
MaxSegs == 3
MaxPairs == 4

\* --------------------------------------------------------------- rationals
RECURSIVE GCD(_, _)
GCD(a, b) == IF b = 0 THEN a ELSE GCD(b, a % b)

Abs(x) == IF x < 0 THEN -x ELSE x

Rat(n, d) ==
    LET s == IF d < 0 THEN -1 ELSE 1
        g == GCD(Abs(n), Abs(d))
    IN  <<(s * n) \div g, (s * d) \div g>>

Int2Rat(n) == <<n, 1>>
None == <<0, 0>>
NaN == <<0, 0>>
Zero == <<0, 1>>
One == <<1, 1>>

Lcm(a, b) == (a \div GCD(a, b)) * b

RAdd(x, y) ==
    LET l == Lcm(x[2], y[2])
    IN  Rat(x[1] * (l \div x[2]) + y[1] * (l \div y[2]), l)
RNeg(x) == <<-x[1], x[2]>>
RSub(x, y) == RAdd(x, RNeg(y))
RMul(x, y) ==
    LET a == Rat(x[1], y[2])
        b == Rat(y[1], x[2])
    IN  Rat(a[1] * b[1], a[2] * b[2])
RDiv(x, y) == RMul(x, Rat(y[2], y[1]))
\* comparisons with NaN are false, as in IEEE arithmetic
RLt(x, y) ==
    /\ x # NaN
    /\ y # NaN
    /\ LET l == Lcm(x[2], y[2]) IN x[1] * (l \div x[2]) < y[1] * (l \div y[2])
RGt(x, y) == RLt(y, x)
RMin(x, y) == IF RLt(y, x) THEN y ELSE x
RMax(x, y) == IF RGt(y, x) THEN y ELSE x

\* ------------------------------------------------ backtester.py: constants
FixedCap == 1000
RiskCap == 1000

RiskStrategies == {"safe", "moderate", "risky", "extreme"}
InitialBalances == {1, 2000}
Closes == {100, 200}

\* set_risk_strategy: the name -> factor table
risk_mapping(rs) ==
    CASE rs = "safe" -> Rat(1, 100)
      [] rs = "moderate" -> Rat(1, 10)
      [] rs = "risky" -> Rat(1, 5)
      [] rs = "extreme" -> None

\* a row of the signal frame, long_entry / long_exit already cast to 0/1
Rows == [close : Closes, long_entry : BOOLEAN, long_exit : BOOLEAN]

RECURSIVE SeqsUpTo(_, _)
SeqsUpTo(S, n) ==
    IF n = 0 THEN {<<>>}
    ELSE LET shorter == SeqsUpTo(S, n - 1)
         IN  shorter \cup {Append(q, r) : q \in {p \in shorter : Len(p) = n - 1}, r \in S}

TradeFrames == SeqsUpTo(Rows, MaxBars)

\* trades.index[k] on a RangeIndex of n rows: a negative k counts from the end
PyIndex(k, n) == IF k < 0 THEN n + k ELSE k

\* the bar whose close line 60 reads: trades.index[idx - 1]
RefIndex(i, n) == PyIndex(i - 1, n)

\* variant: the entry test without "and not prev_position"
EntryTakenAnyTime(row, prev) == row.long_entry

EntryTaken(row, prev) == row.long_entry /\ ~prev

ExitTaken(row, prev) == row.long_exit /\ prev

\* variant: the extreme size is the cap itself, without min(balance, .)
PositionSizeNoMin(bal, rf, extreme) ==
    IF ~extreme THEN RMul(bal, rf) ELSE Int2Rat(FixedCap)

PositionSize(bal, rf, extreme) ==
    IF ~extreme THEN RMul(bal, rf) ELSE RMin(bal, Int2Rat(FixedCap))

Pnl(size, close, ref) == RMul(size, RSub(RDiv(Int2Rat(close), Int2Rat(ref)), One))

\* variant: an unset factor counts as 1, i.e. (self.risk_factor or 1) * 2
RiskAfterWinNoneAsOne(rf) ==
    [err |-> "",
     rf |-> RMin(RMul(IF rf = None THEN One ELSE rf, Int2Rat(2)), Int2Rat(RiskCap))]

\* line 69: min(self.risk_factor * 2, 1000); None * 2 raises TypeError
RiskAfterWin(rf) ==
    IF rf = None THEN [err |-> "TypeError", rf |-> rf]
    ELSE [err |-> "", rf |-> RMin(RMul(rf, Int2Rat(2)), Int2Rat(RiskCap))]

\* line 72: won_trades / total_trades on Python ints
WinRatio(won, total) ==
    IF total = 0 THEN [err |-> "ZeroDivisionError", v |-> NaN]
    ELSE [err |-> "", v |-> Rat(won, total)]

NoResult ==
    [returned |-> FALSE, won_trades |-> 0, total_trades |-> 0, win_ratio |-> NaN,
     final_balance |-> NaN, profit |-> NaN]

\* ---------------------------------------------------------------- the loop
\* the locals of run_backtest together with the object's risk_factor
Locals0(ib, rf) ==
    [balance |-> Int2Rat(ib), position_size |-> Zero, prev_position |-> FALSE,
     won_trades |-> 0, total_trades |-> 0, risk_factor |-> rf, err |-> "",
     pnl |-> NaN, ref |-> -1, exits |-> 0]

\* lines 53-57
EntryStepOf(s, row, extreme) ==
    IF EntryTaken(row, s.prev_position)
    THEN LET size == PositionSize(s.balance, s.risk_factor, extreme)
         IN  [s EXCEPT !.position_size = size,
                       !.balance = RSub(s.balance, size),
                       !.prev_position = TRUE,
                       !.total_trades = s.total_trades + 1]
    ELSE s

\* lines 59-69
ExitStepOf(s, row, i, frame, extreme) ==
    IF ExitTaken(row, s.prev_position)
    THEN LET r == RefIndex(i, Len(frame))
             p == Pnl(s.position_size, row.close, frame[r + 1].close)
             won == RGt(p, Zero)
             adj == IF won /\ extreme THEN RiskAfterWin(s.risk_factor)
                    ELSE [err |-> "", rf |-> s.risk_factor]
         IN  [s EXCEPT !.pnl = p, !.ref = r,
                       !.balance = RAdd(s.balance, RAdd(s.position_size, p)),
                       !.position_size = Zero,
                       !.prev_position = FALSE,
                       !.exits = s.exits + 1,
                       !.won_trades = IF won THEN s.won_trades + 1 ELSE s.won_trades,
                       !.risk_factor = adj.rf,
                       !.err = adj.err]
    ELSE s

\* lines 71-80
ResultOf(s, ib) ==
    LET wr == WinRatio(s.won_trades, s.total_trades)
    IN  IF wr.err # "" THEN [err |-> wr.err, res |-> NoResult]
        ELSE [err |-> "",
              res |-> [returned |-> TRUE, won_trades |-> s.won_trades,
                       total_trades |-> s.total_trades, win_ratio |-> wr.v,
                       final_balance |-> s.balance,
                       profit |-> RSub(s.balance, Int2Rat(ib))]]

RECURSIVE Replay(_, _, _, _)
\* lines 52-69 on a frame, from bar i to the end or to the first exception
Replay(s, frame, i, extreme) ==
    IF i = Len(frame) \/ s.err # "" THEN s
    ELSE LET row == frame[i + 1]
         IN  Replay(ExitStepOf(EntryStepOf(s, row, extreme), row, i, frame, extreme),
                    frame, i + 1, extreme)

\* run_backtest on a freshly constructed BacktestingFramework(_, ib, rs)
FreshOutcome(frame, ib, rs) ==
    LET s == Replay(Locals0(ib, risk_mapping(rs)), frame, 0, rs = "extreme")
    IN  IF s.err # "" THEN [err |-> s.err, res |-> NoResult] ELSE ResultOf(s, ib)

\* ------------------------------------------------------------------- state
VARIABLES
    \* BacktestingFramework object
    initial_balance, risk_strategy, risk_factor, is_extreme,
    \* run_backtest: frame, loop position, locals, outcome
    trades, idx, pc, balance, position_size, prev_position, won_trades,
    total_trades, pnl, ref, exits, result, error, run,
    \* ForexTrading._calculate_market_stage
    data, ms_pc, short_ma, long_ma, stage, volatility, ms_error,
    \* ForexTrading.calc_strategy
    market_stages, strategies, cs_i, cs_pc, cs_error

btVars ==
    <<initial_balance, risk_strategy, risk_factor, is_extreme, trades, idx, pc,
      balance, position_size, prev_position, won_trades, total_trades, pnl, ref,
      exits, result, error, run>>
msVars == <<data, ms_pc, short_ma, long_ma, stage, volatility, ms_error>>
csVars == <<market_stages, strategies, cs_i, cs_pc, cs_error>>
vars == <<btVars, msVars, csVars>>

\* ------------------------------------------------- BacktestingFramework
CurLocals ==
    [balance |-> balance, position_size |-> position_size,
     prev_position |-> prev_position, won_trades |-> won_trades,
     total_trades |-> total_trades, risk_factor |-> risk_factor, err |-> "",
     pnl |-> pnl, ref |-> ref, exits |-> exits]

SetLocals(s) ==
    /\ balance' = s.balance
    /\ position_size' = s.position_size
    /\ prev_position' = s.prev_position
    /\ won_trades' = s.won_trades
    /\ total_trades' = s.total_trades
    /\ risk_factor' = s.risk_factor
    /\ pnl' = s.pnl
    /\ ref' = s.ref
    /\ exits' = s.exits

BtIdle ==
    /\ trades = <<>> /\ idx = 0 /\ pc = "idle"
    /\ balance = Zero /\ position_size = Zero /\ prev_position = FALSE
    /\ won_trades = 0 /\ total_trades = 0 /\ pnl = NaN /\ ref = -1 /\ exits = 0
    /\ result = NoResult /\ error = "" /\ run = 0

\* __init__ and set_risk_strategy
BtInit ==
    /\ initial_balance \in InitialBalances
    /\ risk_strategy \in RiskStrategies
    /\ risk_factor = risk_mapping(risk_strategy)
    /\ is_extreme = (risk_strategy = "extreme")
    /\ BtIdle

\* run_backtest is called: lines 42-50
RunBacktest ==
    /\ pc \in {"idle", "done", "error"}
    /\ run < MaxRuns
    /\ \E frame \in TradeFrames :
         /\ trades' = frame
         /\ pc' = IF Len(frame) = 0 THEN "finish" ELSE "entry"
    /\ SetLocals(Locals0(initial_balance, risk_factor))
    /\ idx' = 0
    /\ result' = NoResult
    /\ error' = ""
    /\ run' = run + 1
    /\ UNCHANGED <<initial_balance, risk_strategy, is_extreme>>

\* the first if of the loop body, lines 53-57
EntryStep ==
    /\ pc = "entry"
    /\ SetLocals(EntryStepOf(CurLocals, trades[idx + 1], is_extreme))
    /\ pc' = "exit"
    /\ UNCHANGED <<initial_balance, risk_strategy, is_extreme, trades, idx, result,
                   error, run>>

\* the second if of the loop body, lines 59-69, and the loop's advance
ExitStep ==
    /\ pc = "exit"
    /\ LET s == ExitStepOf(CurLocals, trades[idx + 1], idx, trades, is_extreme)
       IN  /\ SetLocals(s)
           /\ error' = s.err
           /\ pc' = IF s.err # "" THEN "error"
                    ELSE IF idx + 1 = Len(trades) THEN "finish" ELSE "entry"
           /\ idx' = IF s.err # "" THEN idx ELSE idx + 1
    /\ UNCHANGED <<initial_balance, risk_strategy, is_extreme, trades, result, run>>

\* lines 71-80
Finish ==
    /\ pc = "finish"
    /\ LET o == ResultOf(CurLocals, initial_balance)
       IN  /\ result' = o.res
           /\ error' = o.err
           /\ pc' = IF o.err # "" THEN "error" ELSE "done"
    /\ UNCHANGED <<initial_balance, risk_strategy, risk_factor, is_extreme, trades, idx,
                   balance, position_size, prev_position, won_trades, total_trades,
                   pnl, ref, exits, run>>

\* ------------------------------------------- ForexTrading: market stage
ShortWindow == 50
LongWindow == 200
AtrPeriod == 14

\* The price histories the provider may return: piecewise-linear closes,
\* each segment <<count, step>> adding step to the close on each of its bars.
SegCounts == {1, 49, 50, 150}
SegSteps == {-1, 0, 1, 2}
Segments == SegCounts \X SegSteps
SegLists == SeqsUpTo(Segments, MaxSegs)

RECURSIVE SegLen(_)
SegLen(segs) == IF segs = <<>> THEN 0 ELSE segs[1][1] + SegLen(Tail(segs))

RECURSIVE CloseAt(_, _, _)
CloseAt(segs, i, prev) ==
    IF i <= segs[1][1] THEN prev + i * segs[1][2]
    ELSE CloseAt(Tail(segs), i - segs[1][1], prev + segs[1][1] * segs[1][2])

BarOf(c) == [high |-> c + 1, low |-> c - 1, close |-> c]

History(segs) == [i \in 1..SegLen(segs) |-> BarOf(CloseAt(segs, i, 1000))]

RECURSIVE SumClose(_, _, _)
SumClose(df, from, to) ==
    IF from > to THEN 0
    ELSE IF from = to THEN df[from].close
    ELSE LET mid == (from + to) \div 2
         IN  SumClose(df, from, mid) + SumClose(df, mid + 1, to)

\* df['close'].rolling(window=w).mean().iloc[-1]
RollingMeanLast(df, w) ==
    IF Len(df) < w THEN NaN
    ELSE Rat(SumClose(df, Len(df) - w + 1, Len(df)), w)

\* variant: the two comparisons exchanged
MarketStageSwapped(short, long) ==
    IF RLt(short, long) THEN "Bull"
    ELSE IF RGt(short, long) THEN "Bear"
    ELSE "Consolidation"

\* lines 81-86
MarketStage(short, long) ==
    IF RGt(short, long) THEN "Bull"
    ELSE IF RLt(short, long) THEN "Bear"
    ELSE "Consolidation"

Max2(a, b) == IF a > b THEN a ELSE b

\* lines 143-147; max(axis=1) skips the NaN columns of the first row
TrueRange(df, i) ==
    IF i = 1 THEN df[1].high - df[1].low
    ELSE Max2(df[i].high - df[i].low,
              Max2(Abs(df[i].high - df[i - 1].close), Abs(df[i].low - df[i - 1].close)))

RECURSIVE SumTrueRange(_, _, _)
SumTrueRange(df, from, to) ==
    IF from > to THEN 0
    ELSE IF from = to THEN TrueRange(df, from)
    ELSE LET mid == (from + to) \div 2
         IN  SumTrueRange(df, from, mid) + SumTrueRange(df, mid + 1, to)

\* _calculate_volatility, lines 143-161
CalculateVolatility(df, period) ==
    IF Len(df) < period THEN NaN
    ELSE Rat(SumTrueRange(df, Len(df) - period + 1, Len(df)), period)

MsInit ==
    /\ data = <<>> /\ ms_pc = "idle" /\ short_ma = NaN /\ long_ma = NaN
    /\ stage = "" /\ volatility = NaN /\ ms_error = ""

\* line 73: the provider returns a price history
FetchHistoricalData ==
    /\ ms_pc = "idle"
    /\ \E segs \in SegLists : data' = History(segs)
    /\ ms_pc' = "fetched"
    /\ UNCHANGED <<short_ma, long_ma, stage, volatility, ms_error>>

\* lines 74-91; .iloc[-1] of an empty series raises IndexError
CalculateMarketStage ==
    /\ ms_pc = "fetched"
    /\ IF Len(data) = 0
       THEN /\ ms_error' = "IndexError"
            /\ ms_pc' = "error"
            /\ UNCHANGED <<short_ma, long_ma, stage, volatility>>
       ELSE /\ short_ma' = RollingMeanLast(data, ShortWindow)
            /\ long_ma' = RollingMeanLast(data, LongWindow)
            /\ stage' = MarketStage(short_ma', long_ma')
            /\ volatility' = CalculateVolatility(data, AtrPeriod)
            /\ ms_pc' = "returned"
            /\ UNCHANGED ms_error
    /\ UNCHANGED data

\* ------------------------------------------- ForexTrading: calc_strategy
Stages == {"Bull", "Bear", "Consolidation"}
StageLists == SeqsUpTo(Stages, MaxPairs) \ {<<>>}

\* positional parameters after self that each strategy method declares
StrategyArity(name) ==
    CASE name = "bull_strategy" -> 2
      [] name = "bear_strategy" -> 0
      [] name = "consolidation_strategy" -> 0

\* what each strategy method returns when its call binds
StrategyReturn(name) ==
    IF name = "bull_strategy"
    THEN [kind |-> "DataFrame", long_entry |-> TRUE, long_exit |-> TRUE]
    ELSE [kind |-> "None", long_entry |-> FALSE, long_exit |-> FALSE]

\* the call each branch of lines 296-301 makes: <<method, number of arguments>>
Dispatch(st) ==
    CASE st = "Consolidation" -> <<"consolidation_strategy", 2>>
      [] st = "Bull" -> <<"bull_strategy", 2>>
      [] st = "Bear" -> <<"bear_strategy", 2>>

\* a bound-method call: an argument count mismatch raises TypeError
CallStrategy(call) ==
    IF call[2] # StrategyArity(call[1])
    THEN [err |-> "TypeError", ret |-> StrategyReturn("bear_strategy")]
    ELSE [err |-> "", ret |-> StrategyReturn(call[1])]

NoEntry == [kind |-> "missing", long_entry |-> FALSE, long_exit |-> FALSE]

\* self.strategies = {} and a market_stages dict of 1..MaxPairs instruments
CsInit ==
    /\ market_stages \in StageLists
    /\ strategies = [i \in 1..Len(market_stages) |-> NoEntry]
    /\ cs_i = 1 /\ cs_pc = "loop" /\ cs_error = ""

\* one iteration of the loop of calc_strategy, lines 290-301
CalcStrategyStep ==
    /\ cs_pc = "loop"
    /\ cs_i <= Len(market_stages)
    /\ LET r == CallStrategy(Dispatch(market_stages[cs_i]))
       IN  IF r.err # ""
           THEN /\ cs_error' = r.err
                /\ cs_pc' = "error"
                /\ UNCHANGED <<strategies, cs_i>>
           ELSE /\ strategies' = [strategies EXCEPT ![cs_i] = r.ret]
                /\ cs_i' = cs_i + 1
                /\ UNCHANGED <<cs_pc, cs_error>>
    /\ UNCHANGED market_stages

\* line 302
CalcStrategyReturn ==
    /\ cs_pc = "loop"
    /\ cs_i > Len(market_stages)
    /\ cs_pc' = "returned"
    /\ UNCHANGED <<market_stages, strategies, cs_i, cs_error>>

\* ---------------------------------------------------------- specifications
BtQuiet ==
    /\ initial_balance = 1 /\ risk_strategy = "safe"
    /\ risk_factor = risk_mapping("safe") /\ is_extreme = FALSE
    /\ BtIdle

CsQuiet ==
    /\ market_stages = <<>> /\ strategies = <<>> /\ cs_i = 1
    /\ cs_pc = "idle" /\ cs_error = ""

Init == BtInit /\ MsInit /\ CsQuiet
Next ==
    \/ RunBacktest /\ UNCHANGED <<msVars, csVars>>
    \/ EntryStep /\ UNCHANGED <<msVars, csVars>>
    \/ ExitStep /\ UNCHANGED <<msVars, csVars>>
    \/ Finish /\ UNCHANGED <<msVars, csVars>>
Spec == Init /\ [][Next]_vars

StageInit == BtQuiet /\ MsInit /\ CsQuiet
StageNext ==
    \/ FetchHistoricalData /\ UNCHANGED <<btVars, csVars>>
    \/ CalculateMarketStage /\ UNCHANGED <<btVars, csVars>>
StageSpec == StageInit /\ [][StageNext]_vars

StrategyInit == BtQuiet /\ MsInit /\ CsInit
StrategyNext ==
    \/ CalcStrategyStep /\ UNCHANGED <<btVars, msVars>>
    \/ CalcStrategyReturn /\ UNCHANGED <<btVars, msVars>>
StrategySpec == StrategyInit /\ [][StrategyNext]_vars

\* -------------------------------------------------------------- properties
Ended == pc \in {"done", "error"}

AllFalse(frame) == \A i \in 1..Len(frame) : ~frame[i].long_entry /\ ~frame[i].long_exit

\* C1: a replay that opened no trade returns totalTrades = 0, wonTrades = 0
\* and an undefined win ratio; it never ends in a division by zero.
C1_NoTradesReturnsUndefinedRatio ==
    (Ended /\ total_trades = 0) =>
        /\ pc = "done"
        /\ error # "ZeroDivisionError"
        /\ result.returned
        /\ result.total_trades = 0
        /\ result.won_trades = 0
        /\ result.win_ratio = NaN

\* C2: a run over a frame whose long_entry and long_exit are false on every
\* bar returns finalBalance = initial balance and profit = 0.
C2_AllFalseKeepsBalance ==
    (Ended /\ AllFalse(trades)) =>
        /\ result.returned
        /\ result.final_balance = Int2Rat(initial_balance)
        /\ result.profit = Zero

\* C3: under 'extreme' every exit with P&L > 0 completes without error and
\* leaves a risk factor that is a number capped at 1000; under the other
\* policies a win leaves the risk factor unchanged.
C3_ExtremeWinDoublesFactor ==
    [][(pc = "exit" /\ ExitTaken(trades[idx + 1], prev_position) /\ RGt(pnl', Zero)) =>
          /\ error' = ""
          /\ pc' # "error"
          /\ is_extreme => (risk_factor' # None /\ ~RGt(risk_factor', Int2Rat(1000)))
          /\ ~is_extreme => risk_factor' = risk_factor]_vars

\* C4: an exit on bar t realizes positionSize * (close[t] / close[t-1] - 1)
\* against the close of the bar just before t, credits positionSize + P&L and
\* clears the position; an exit on bar 0 reads the close of no other bar.
C4_ExitUsesPreviousBar ==
    [][(pc = "exit" /\ ExitTaken(trades[idx + 1], prev_position)) =>
          /\ idx = 0 => ref' \notin (0..(Len(trades) - 1)) \ {idx}
          /\ idx >= 1 =>
               /\ ref' = idx - 1
               /\ pnl' = RMul(position_size,
                              RSub(Rat(trades[idx + 1].close, trades[idx].close), One))
          /\ balance' = RAdd(balance, RAdd(position_size, pnl'))
          /\ position_size' = Zero
          /\ ~prev_position']_vars

SizeByPolicy(bal, rs) ==
    CASE rs = "safe" -> RMul(bal, Rat(1, 100))
      [] rs = "moderate" -> RMul(bal, Rat(10, 100))
      [] rs = "risky" -> RMul(bal, Rat(20, 100))
      [] rs = "extreme" -> IF RLt(bal, Int2Rat(1000)) THEN bal ELSE Int2Rat(1000)

\* C6: the entry step on a long_entry bar with no open position sizes the
\* position by policy, debits the balance by that size, opens the position
\* and counts one more trade; with a position already open it changes none
\* of balance, position size and totalTrades.
C6_EntrySizing ==
    [][pc = "entry" =>
          LET row == trades[idx + 1]
          IN  /\ (row.long_entry /\ ~prev_position) =>
                   /\ position_size' = SizeByPolicy(balance, risk_strategy)
                   /\ balance' = RSub(balance, position_size')
                   /\ prev_position'
                   /\ total_trades' = total_trades + 1
              /\ (row.long_entry /\ prev_position) =>
                   /\ balance' = balance
                   /\ position_size' = position_size
                   /\ total_trades' = total_trades
                   /\ prev_position']_vars

\* bar 0 opened an extreme position of min(2000, 1000); bar 1 asks to enter again
C6_Witness ==
    /\ pc = "exit" /\ idx = 1 /\ prev_position /\ total_trades = 1
    /\ trades[1].long_entry /\ ~trades[1].long_exit /\ trades[2].long_entry
    /\ is_extreme /\ initial_balance = 2000
    /\ position_size = Int2Rat(1000) /\ balance = Int2Rat(1000)

\* C7: with fewer than 200 bars _calculate_market_stage fails and returns no
\* regime label.
C7_ShortHistoryFails ==
    (ms_pc \in {"returned", "error"} /\ Len(data) < LongWindow) =>
        ms_pc = "error" /\ stage = ""

\* C8: calc_strategy completes without error and records a signal series
\* with long_entry / long_exit columns for every instrument, whatever its
\* regime.
C8_EveryRegimeRouted ==
    /\ cs_pc # "error"
    /\ cs_pc = "returned" =>
         \A i \in 1..Len(market_stages) :
            /\ strategies[i].kind = "DataFrame"
            /\ strategies[i].long_entry
            /\ strategies[i].long_exit

IncreasingLast(df, w) ==
    \A i \in (Len(df) - w + 1)..(Len(df) - 1) : df[i].close < df[i + 1].close

C10_EntriesAndExitsAlternate ==
    /\ won_trades <= exits
    /\ exits <= total_trades
    /\ total_trades <= exits + 1
    /\ (total_trades - exits = 1) <=> prev_position
    /\ ~prev_position => position_size = Zero

\* bar 0 carried both flags: opened and closed within the bar; bar 1 re-entered
C10_Witness ==
    /\ pc = "exit" /\ idx = 1 /\ prev_position
    /\ trades[1].long_entry /\ trades[1].long_exit
    /\ exits = 1 /\ total_trades = 2 /\ won_trades = 0

====
